---- MODULE Spec2Model ----
(***************************************************************************)
(* Model of the mini-RAG service (app/main.py, app/ingestion.py,           *)
(* app/qa.py, app/qa_graph.py): the process-wide state kept in app.state,  *)
(* the on-disk FAISS snapshot (index.faiss + index.pkl), and the /upload   *)
(* and /ask handlers run as coroutines on one event loop.                  *)
(***************************************************************************)
EXTENDS Integers, Sequences, FiniteSets, TLC

(* ------------------------------ bounds --------------------------------- *)
NSlots     == 2     \* requests that can be in progress at once
MaxReqs    == 2     \* requests (/upload or /ask) started over a run
MaxChunks  == 1     \* chunks the splitter yields for one upload

(* ------------------------- program constants --------------------------- *)
TOP_K == 4

None == 0            \* Python None for the object references of app.state

Slots == 1..NSlots

(* ------------------------------ strings -------------------------------- *)
\* Strings are sequences of one-character strings.
a_txt == <<"a", ".", "t", "x", "t">>
b_MD  == <<"b", ".", "M", "D">>
uploaded_file == <<"u", "p", "l", "o", "a", "d", "e", "d", "_", "f", "i", "l", "e">>
unknown == <<"u", "n", "k", "n", "o", "w", "n">>

Filenames == {a_txt, b_MD, <<>>}
Questions == {<<" ">>, <<" ", "q", " ">>}
Engines   == {"none", "graph", "chain"}

ALLOWED_EXTS == { <<".", "t", "x", "t">>, <<".", "m", "d">> }

IsSpace(c) == c \in {" ", "\t", "\n"}

RECURSIVE LStrip(_)
LStrip(s) == IF s = <<>> THEN <<>>
             ELSE IF IsSpace(Head(s)) THEN LStrip(Tail(s)) ELSE s

RECURSIVE RStrip(_)
RStrip(s) == IF s = <<>> THEN <<>>
             ELSE IF IsSpace(s[Len(s)]) THEN RStrip(SubSeq(s, 1, Len(s) - 1)) ELSE s

StripNoop(s) == s

\* str.strip()
Strip(s) == RStrip(LStrip(s))

LowerChar(c) == CASE c = "M" -> "m"
                  [] c = "D" -> "d"
                  [] c = "T" -> "t"
                  [] c = "X" -> "x"
                  [] OTHER   -> c

\* str.lower()
Lower(s) == [i \in 1..Len(s) |-> LowerChar(s[i])]

\* position of the last "." of s that follows at least one non-dot
\* character, 0 when there is none (os.path.splitext ignores leading dots)
LastDot(s) ==
    LET cand == {i \in 1..Len(s) : s[i] = "." /\ \E j \in 1..(i - 1) : s[j] # "."}
    IN IF cand = {} THEN 0 ELSE CHOOSE i \in cand : \A j \in cand : j <= i

\* os.path.splitext(filename)[1].lower()
Ext(filename) ==
    LET d == LastDot(filename)
    IN IF d = 0 THEN <<>> ELSE Lower(SubSeq(filename, d, Len(filename)))

\* file.filename or "uploaded_file"
FilenameOf(f) == IF f = <<>> THEN uploaded_file ELSE f

(* ------------------------------ chunks --------------------------------- *)
\* split_text_documents: the n chunks of one document, each carrying the
\* document's source, "unknown" when the source is empty
split_text_documents(source, n) ==
    [i \in 1..n |-> [source |-> IF source = <<>> THEN unknown ELSE source,
                     seq    |-> i]]

IsPrefix(s, t) == Len(s) <= Len(t) /\ SubSeq(t, 1, Len(s)) = s

Range(s) == {s[i] : i \in 1..Len(s)}

(* ------------------------------- disk ---------------------------------- *)
\* One file of the snapshot directory: absent, partially written, or full.
Absent    == [st |-> "absent",  recs |-> <<>>]
Partial   == [st |-> "partial", recs |-> <<>>]
Full(rs)  == [st |-> "full",    recs |-> rs]

EmptyDisk == [faiss |-> Absent, pkl |-> Absent]

\* a snapshot a complete save_vectorstore leaves behind
DiskValid(d) ==
    \/ d = EmptyDisk
    \/ d.faiss.st = "full" /\ d.pkl.st = "full" /\ d.faiss.recs = d.pkl.recs

InitDisks == {EmptyDisk,
              [faiss |-> Full(split_text_documents(a_txt, 1)),
               pkl   |-> Full(split_text_documents(a_txt, 1))]}

\* load_vectorstore: None when the directory is empty or the load raises,
\* else the vectorstore made of the two files as they are
load_vectorstore(d) ==
    IF d.faiss.st = "absent" /\ d.pkl.st = "absent" THEN <<>>
    ELSE IF d.faiss.st = "full" /\ d.pkl.st = "full"
         THEN <<[index |-> d.faiss.recs, store |-> d.pkl.recs]>>
         ELSE <<>>

(* ------------------------------- tasks --------------------------------- *)
IdleTask == [kind |-> "idle", pc |-> "idle", filename |-> <<>>, chunks |-> <<>>,
             question |-> <<>>, engine |-> "none",
             use_graph |-> FALSE, staged_avail |-> FALSE,
             pipeline |-> "none", node |-> "none", stages |-> <<>>,
             has_docs |-> FALSE, docs |-> <<>>, searched |-> None,
             srcset |-> {}, sources |-> <<>>, status |-> 0,
             embed_calls |-> 0, gen_calls |-> 0, built |-> FALSE]

VARIABLES proc, LANGGRAPH_AVAILABLE, use_langgraph, heap, vectorstore,
          retrieval_chain, graph_chain, disk, loop, task, nReq

vars == <<proc, LANGGRAPH_AVAILABLE, use_langgraph, heap, vectorstore,
          retrieval_chain, graph_chain, disk, loop, task, nReq>>

appstate == <<heap, vectorstore, retrieval_chain, graph_chain>>
env      == <<proc, LANGGRAPH_AVAILABLE, use_langgraph>>
counters == <<nReq>>

(* ------------------------------ startup -------------------------------- *)
\* module-level setup of main.py: load the snapshot and, when there is one,
\* build both pipelines on it
Startup(d, lg) ==
    LET h == load_vectorstore(d) IN
    /\ heap' = h
    /\ vectorstore' = IF h = <<>> THEN None ELSE 1
    /\ retrieval_chain' = IF h = <<>> THEN None ELSE 1
    /\ graph_chain' = IF h # <<>> /\ lg THEN 1 ELSE None

Init ==
    /\ proc = "up"
    /\ LANGGRAPH_AVAILABLE \in BOOLEAN
    /\ use_langgraph \in BOOLEAN
    /\ disk \in InitDisks
    /\ heap = load_vectorstore(disk)
    /\ vectorstore = IF heap = <<>> THEN None ELSE 1
    /\ retrieval_chain = vectorstore
    /\ graph_chain = IF heap # <<>> /\ LANGGRAPH_AVAILABLE THEN 1 ELSE None
    /\ loop = 0
    /\ task = [s \in Slots |-> IdleTask]
    /\ nReq = 0

(* ----------------------------- event loop ------------------------------ *)
SuspendsEverywhere(pc) == TRUE

\* the places where a handler awaits and gives the event loop back: both
\* handlers are `async def` and the only await is `await file.read()`
Suspends(pc) == pc = "read"

\* slot s may take its next step
CanRun(s) == proc = "up" /\ (loop = s \/ (loop = 0 /\ Suspends(task[s].pc)))

\* who holds the loop after slot s has moved to pc
Holder(s, pc) == IF Suspends(pc) THEN 0 ELSE s

\* a new request is given the first free slot (slots only name the requests
\* in progress)
FreeSlot(s) ==
    /\ task[s].kind = "idle"
    /\ \A t \in Slots : t < s => task[t].kind # "idle"

(* ------------------------------ /upload -------------------------------- *)
Done(t, code) == [t EXCEPT !.pc = "done", !.status = code]

\* upload_document up to `await file.read()`: the extension check
UploadStart(s, f) ==
    /\ proc = "up" /\ loop = 0 /\ FreeSlot(s) /\ nReq < MaxReqs
    /\ LET filename == FilenameOf(f)
           t == [IdleTask EXCEPT !.kind = "upload", !.filename = filename]
       IN IF Ext(filename) \notin ALLOWED_EXTS
          THEN /\ task' = [task EXCEPT ![s] = Done(t, 400)]
               /\ loop' = Holder(s, "done")
          ELSE /\ task' = [task EXCEPT ![s] = [t EXCEPT !.pc = "read"]]
               /\ loop' = Holder(s, "read")
    /\ nReq' = nReq + 1
    /\ UNCHANGED <<env, appstate, disk>>

\* the read completes; decode, wrap and split the text into n chunks
UploadIngest(s, n) ==
    /\ CanRun(s) /\ task[s].kind = "upload" /\ task[s].pc = "read"
    /\ task' = [task EXCEPT ![s].chunks = split_text_documents(task[s].filename, n),
                            ![s].pc = "insert"]
    /\ loop' = Holder(s, "insert")
    /\ UNCHANGED <<env, appstate, disk, counters>>

AlwaysFirstUpload(vs) == TRUE

\* `if app.state.vectorstore is None`
IsFirstUpload(vs) == vs = None

ReplaceTexts(old, chunks) == chunks

\* FAISS.add_texts: the batch is appended to the records already there
add_texts(old, chunks) == old \o chunks

\* create_vectorstore_from_docs: FAISS.from_documents embeds the chunks and
\* builds a new index; it raises on an empty batch (see UploadFail)
UploadCreate(s) ==
    /\ CanRun(s) /\ task[s].kind = "upload" /\ task[s].pc = "insert"
    /\ IsFirstUpload(vectorstore)
    /\ task[s].chunks # <<>>
    /\ heap' = Append(heap, [index |-> task[s].chunks, store |-> task[s].chunks])
    /\ vectorstore' = Len(heap) + 1
    /\ task' = [task EXCEPT ![s].pc = "save_faiss_open",
                            ![s].embed_calls = task[s].embed_calls + 1]
    /\ loop' = Holder(s, "save_faiss_open")
    /\ UNCHANGED <<env, retrieval_chain, graph_chain, disk, counters>>

\* vectorstore.add_documents, first half: the vectors go into the index
UploadAddIndex(s) ==
    /\ CanRun(s) /\ task[s].kind = "upload" /\ task[s].pc = "insert"
    /\ ~IsFirstUpload(vectorstore)
    /\ heap' = [heap EXCEPT ![vectorstore].index =
                                add_texts(heap[vectorstore].index, task[s].chunks)]
    /\ task' = [task EXCEPT ![s].pc = "add_store",
                            ![s].embed_calls = task[s].embed_calls + 1]
    /\ loop' = Holder(s, "add_store")
    /\ UNCHANGED <<env, vectorstore, retrieval_chain, graph_chain, disk, counters>>

\* vectorstore.add_documents, second half: docstore and id mapping follow
UploadAddStore(s) ==
    /\ CanRun(s) /\ task[s].kind = "upload" /\ task[s].pc = "add_store"
    /\ heap' = [heap EXCEPT ![vectorstore].store =
                                add_texts(heap[vectorstore].store, task[s].chunks)]
    /\ task' = [task EXCEPT ![s].pc = "save_faiss_open"]
    /\ loop' = Holder(s, "save_faiss_open")
    /\ UNCHANGED <<env, vectorstore, retrieval_chain, graph_chain, disk, counters>>

\* save_vectorstore -> FAISS.save_local writes index.faiss in place, then
\* index.pkl in place; each write truncates the file and then fills it
SaveFaissOpen(s) ==
    /\ CanRun(s) /\ task[s].kind = "upload" /\ task[s].pc = "save_faiss_open"
    /\ disk' = [disk EXCEPT !.faiss = Partial]
    /\ task' = [task EXCEPT ![s].pc = "save_faiss_write"]
    /\ loop' = Holder(s, "save_faiss_write")
    /\ UNCHANGED <<env, appstate, counters>>

SaveFaissWrite(s) ==
    /\ CanRun(s) /\ task[s].kind = "upload" /\ task[s].pc = "save_faiss_write"
    /\ disk' = [disk EXCEPT !.faiss = Full(heap[vectorstore].index)]
    /\ task' = [task EXCEPT ![s].pc = "save_pkl_open"]
    /\ loop' = Holder(s, "save_pkl_open")
    /\ UNCHANGED <<env, appstate, counters>>

SavePklOpen(s) ==
    /\ CanRun(s) /\ task[s].kind = "upload" /\ task[s].pc = "save_pkl_open"
    /\ disk' = [disk EXCEPT !.pkl = Partial]
    /\ task' = [task EXCEPT ![s].pc = "save_pkl_write"]
    /\ loop' = Holder(s, "save_pkl_write")
    /\ UNCHANGED <<env, appstate, counters>>

SavePklWrite(s) ==
    /\ CanRun(s) /\ task[s].kind = "upload" /\ task[s].pc = "save_pkl_write"
    /\ disk' = [disk EXCEPT !.pkl = Full(heap[vectorstore].store)]
    /\ task' = [task EXCEPT ![s].pc = "rebuild_chain"]
    /\ loop' = Holder(s, "rebuild_chain")
    /\ UNCHANGED <<env, appstate, counters>>

\* build_retrieval_chain / build_langgraph_chain: the retriever of the new
\* pipeline is vectorstore.as_retriever(), bound to the object it is given
build_chain(vs) == vs

RebuildChain(s) ==
    /\ CanRun(s) /\ task[s].kind = "upload" /\ task[s].pc = "rebuild_chain"
    /\ retrieval_chain' = build_chain(vectorstore)
    /\ task' = [task EXCEPT ![s].pc = "rebuild_graph"]
    /\ loop' = Holder(s, "rebuild_graph")
    /\ UNCHANGED <<env, heap, vectorstore, graph_chain, disk, counters>>

\* `if LANGGRAPH_AVAILABLE: graph_chain = ...`, then the success response
RebuildGraph(s) ==
    /\ CanRun(s) /\ task[s].kind = "upload" /\ task[s].pc = "rebuild_graph"
    /\ graph_chain' = IF LANGGRAPH_AVAILABLE THEN build_chain(vectorstore)
                      ELSE graph_chain
    /\ task' = [task EXCEPT ![s] = Done(task[s], 200)]
    /\ loop' = Holder(s, "done")
    /\ UNCHANGED <<env, heap, vectorstore, retrieval_chain, disk, counters>>

UploadTryPcs == {"insert", "save_faiss_open", "save_faiss_write", "save_pkl_open",
                 "save_pkl_write", "rebuild_chain", "rebuild_graph"}

\* `except Exception` of upload_document: a step of the try block raises
\* (embedding provider, empty batch, disk, pipeline construction) -> 500
UploadFail(s) ==
    /\ CanRun(s) /\ task[s].kind = "upload" /\ task[s].pc \in UploadTryPcs
    /\ task' = [task EXCEPT ![s] = Done(task[s], 500)]
    /\ loop' = Holder(s, "done")
    /\ UNCHANGED <<env, appstate, disk, counters>>

(* ------------------------------- /ask ---------------------------------- *)
IgnoreOverride(engine, pref, lg, gc) == pref /\ lg /\ gc # None

IgnorePreference(engine, pref, lg, gc) ==
    IF engine = "graph" THEN lg /\ gc # None
    ELSE IF engine = "chain" THEN FALSE
    ELSE lg /\ gc # None

ForceGraph(engine, pref, lg, gc) ==
    IF engine = "graph" THEN TRUE
    ELSE IF engine = "chain" THEN FALSE
    ELSE pref /\ lg /\ gc # None

\* the engine decision of ask: per-call override > global default > fallback
UseGraph(engine, pref, lg, gc) ==
    IF engine = "graph" THEN lg /\ gc # None
    ELSE IF engine = "chain" THEN FALSE
    ELSE pref /\ lg /\ gc # None

\* the staged pipeline can be run: module imported and graph_chain built
StagedAvailable == LANGGRAPH_AVAILABLE /\ graph_chain # None

\* ask up to the call of the selected pipeline: the two input checks, then
\* the engine decision
AskStart(s, q, e) ==
    /\ proc = "up" /\ loop = 0 /\ FreeSlot(s) /\ nReq < MaxReqs
    /\ LET t == [IdleTask EXCEPT !.kind = "ask", !.question = q, !.engine = e,
                                 !.staged_avail = StagedAvailable]
           g == UseGraph(e, use_langgraph, LANGGRAPH_AVAILABLE, graph_chain)
       IN IF vectorstore = None THEN
               /\ task' = [task EXCEPT ![s] = Done(t, 400)]
               /\ loop' = Holder(s, "done")
          ELSE IF Strip(q) = <<>> THEN
               /\ task' = [task EXCEPT ![s] = Done(t, 400)]
               /\ loop' = Holder(s, "done")
          ELSE IF g THEN
               /\ task' = [task EXCEPT ![s] =
                             [t EXCEPT !.question = Strip(q), !.use_graph = TRUE,
                                       !.pipeline = "graph", !.pc = "graph_run",
                                       !.node = "START"]]
               /\ loop' = Holder(s, "graph_run")
          ELSE
               /\ task' = [task EXCEPT ![s] =
                             [t EXCEPT !.question = Strip(q), !.use_graph = FALSE,
                                       !.pipeline = "chain",
                                       !.pc = IF retrieval_chain = None
                                              THEN "chain_build" ELSE "chain_retrieve"]]
               /\ loop' = Holder(s, IF retrieval_chain = None
                                    THEN "chain_build" ELSE "chain_retrieve")
    /\ nReq' = nReq + 1
    /\ UNCHANGED <<env, appstate, disk>>

\* `if app.state.retrieval_chain is None:` build it on the current index
ChainBuild(s) ==
    /\ CanRun(s) /\ task[s].kind = "ask" /\ task[s].pc = "chain_build"
    /\ retrieval_chain' = build_chain(vectorstore)
    /\ task' = [task EXCEPT ![s].pc = "chain_retrieve", ![s].built = TRUE]
    /\ loop' = Holder(s, "chain_retrieve")
    /\ UNCHANGED <<env, heap, vectorstore, graph_chain, disk, counters>>

Min(x, y) == IF x <= y THEN x ELSE y

\* the sequences of k distinct elements of S
RECURSIVE Arrangements(_, _)
Arrangements(S, k) ==
    IF k = 0 THEN {<<>>}
    ELSE UNION {{<<x>> \o r : r \in Arrangements(S \ {x}, k - 1)} : x \in S}

\* FAISS similarity search of the retriever: the min(n, k) nearest vectors
\* of the index in rank order (the ranking depends on the embeddings, so it
\* is any one); each hit is looked up in the docstore, which raises when
\* the docstore has no record for it
search(vs, k) ==
    {[i \in 1..Len(ps) |-> vs.store[ps[i]]] :
        ps \in {r \in Arrangements(1..Len(vs.index), Min(Len(vs.index), k)) :
                    \A i \in 1..Len(r) : r[i] <= Len(vs.store)}}

FirstSourceOnly(docs) == IF docs = <<>> THEN {} ELSE {docs[1].source}

\* answer_with_sources: the set of `source or "unknown"` of the context docs
ChainSources(docs) ==
    {IF docs[i].source = <<>> THEN unknown ELSE docs[i].source : i \in 1..Len(docs)}

\* generate of qa_graph: the set of the sources of state["docs"]
GraphSources(docs) == {docs[i].source : i \in 1..Len(docs)}

\* list(sources) of a Python set: the elements once each, in the set's
\* iteration order, which is any order
ListOfSet(S) == Arrangements(S, Cardinality(S))

\* retrieval step of the chain created by create_retrieval_chain
ChainRetrieve(s) ==
    /\ CanRun(s) /\ task[s].kind = "ask" /\ task[s].pc = "chain_retrieve"
    /\ \E ds \in search(heap[retrieval_chain], TOP_K) :
          task' = [task EXCEPT ![s].docs = ds, ![s].has_docs = TRUE,
                               ![s].searched = retrieval_chain,
                               ![s].embed_calls = task[s].embed_calls + 1,
                               ![s].pc = "chain_generate"]
    /\ loop' = Holder(s, "chain_generate")
    /\ UNCHANGED <<env, appstate, disk, counters>>

\* stuff-documents generation, then the source set of answer_with_sources
ChainGenerate(s) ==
    /\ CanRun(s) /\ task[s].kind = "ask" /\ task[s].pc = "chain_generate"
    /\ task' = [task EXCEPT ![s].srcset = ChainSources(task[s].docs),
                            ![s].gen_calls = task[s].gen_calls + 1,
                            ![s].pc = "respond"]
    /\ loop' = Holder(s, "respond")
    /\ UNCHANGED <<env, appstate, disk, counters>>

SkipGenerate(node) ==
    CASE node = "START" -> "retrieve"
      [] OTHER -> "END"

\* the compiled StateGraph: entry point retrieve, retrieve -> generate,
\* generate -> END
GraphNext(node) ==
    CASE node = "START"    -> "retrieve"
      [] node = "retrieve" -> "generate"
      [] node = "generate" -> "END"
      [] OTHER             -> "END"

\* graph.invoke enters the graph at its entry point
GraphEnter(s) ==
    /\ CanRun(s) /\ task[s].kind = "ask" /\ task[s].pc = "graph_run"
    /\ task[s].node = "START"
    /\ graph_chain # None
    /\ task' = [task EXCEPT ![s].node = GraphNext("START")]
    /\ loop' = Holder(s, "graph_run")
    /\ UNCHANGED <<env, appstate, disk, counters>>

\* node retrieve: writes docs into the state
GraphRetrieve(s) ==
    /\ CanRun(s) /\ task[s].kind = "ask" /\ task[s].pc = "graph_run"
    /\ task[s].node = "retrieve"
    /\ \E ds \in search(heap[graph_chain], TOP_K) :
          task' = [task EXCEPT ![s].docs = ds, ![s].has_docs = TRUE,
                               ![s].searched = graph_chain,
                               ![s].embed_calls = task[s].embed_calls + 1,
                               ![s].stages = Append(task[s].stages, "retrieve"),
                               ![s].node = GraphNext("retrieve")]
    /\ loop' = Holder(s, "graph_run")
    /\ UNCHANGED <<env, appstate, disk, counters>>

\* node generate: reads state.get("docs", []), calls the llm, writes answer
\* and sources
GraphGenerate(s) ==
    /\ CanRun(s) /\ task[s].kind = "ask" /\ task[s].pc = "graph_run"
    /\ task[s].node = "generate"
    /\ LET docs == IF task[s].has_docs THEN task[s].docs ELSE <<>>
       IN task' = [task EXCEPT ![s].srcset = GraphSources(docs),
                               ![s].gen_calls = task[s].gen_calls + 1,
                               ![s].stages = Append(task[s].stages, "generate"),
                               ![s].node = GraphNext("generate")]
    /\ loop' = Holder(s, "graph_run")
    /\ UNCHANGED <<env, appstate, disk, counters>>

\* the graph reached END: answer_with_langgraph returns answer and sources
GraphEnd(s) ==
    /\ CanRun(s) /\ task[s].kind = "ask" /\ task[s].pc = "graph_run"
    /\ task[s].node = "END"
    /\ task' = [task EXCEPT ![s].pc = "respond"]
    /\ loop' = Holder(s, "respond")
    /\ UNCHANGED <<env, appstate, disk, counters>>

\* `return {"answer": answer, "sources": list(sources)}`
Respond(s) ==
    /\ CanRun(s) /\ task[s].kind = "ask" /\ task[s].pc = "respond"
    /\ \E l \in ListOfSet(task[s].srcset) :
          task' = [task EXCEPT ![s] = Done([task[s] EXCEPT !.sources = l], 200)]
    /\ loop' = Holder(s, "done")
    /\ UNCHANGED <<env, appstate, disk, counters>>

AskTryPcs == {"chain_build", "chain_retrieve", "chain_generate", "graph_run"}

\* `except Exception` of ask: the pipeline raises (provider failure, missing
\* docstore record, pipeline construction) -> 500
AskFail(s) ==
    /\ CanRun(s) /\ task[s].kind = "ask" /\ task[s].pc \in AskTryPcs
    /\ task' = [task EXCEPT ![s] = Done(task[s], 500)]
    /\ loop' = Holder(s, "done")
    /\ UNCHANGED <<env, appstate, disk, counters>>

\* the handler returns its response (or its HTTPException) to the event
\* loop; the slot is free for the next request
Recycle(s) ==
    /\ CanRun(s) /\ task[s].pc = "done"
    /\ task' = [task EXCEPT ![s] = IdleTask]
    /\ loop' = 0
    /\ UNCHANGED <<env, appstate, disk, counters>>

(* -------------------------- crash and restart -------------------------- *)
\* the process dies: everything in memory is lost, the disk stays as it is
Crash ==
    /\ proc = "up"
    /\ proc' = "down"
    /\ heap' = <<>> /\ vectorstore' = None
    /\ retrieval_chain' = None /\ graph_chain' = None
    /\ task' = [s \in Slots |-> IdleTask]
    /\ loop' = 0
    /\ UNCHANGED <<LANGGRAPH_AVAILABLE, use_langgraph, disk, nReq>>

\* the process is started again and runs the module-level setup
Restart ==
    /\ proc = "down"
    /\ proc' = "up"
    /\ Startup(disk, LANGGRAPH_AVAILABLE)
    /\ UNCHANGED <<LANGGRAPH_AVAILABLE, use_langgraph, disk, loop, task, counters>>

Next ==
    \/ \E s \in Slots, f \in Filenames : UploadStart(s, f)
    \/ \E s \in Slots, n \in 0..MaxChunks : UploadIngest(s, n)
    \/ \E s \in Slots : UploadCreate(s)
    \/ \E s \in Slots : UploadAddIndex(s)
    \/ \E s \in Slots : UploadAddStore(s)
    \/ \E s \in Slots : SaveFaissOpen(s)
    \/ \E s \in Slots : SaveFaissWrite(s)
    \/ \E s \in Slots : SavePklOpen(s)
    \/ \E s \in Slots : SavePklWrite(s)
    \/ \E s \in Slots : RebuildChain(s)
    \/ \E s \in Slots : RebuildGraph(s)
    \/ \E s \in Slots : UploadFail(s)
    \/ \E s \in Slots, q \in Questions, e \in Engines : AskStart(s, q, e)
    \/ \E s \in Slots : ChainBuild(s)
    \/ \E s \in Slots : ChainRetrieve(s)
    \/ \E s \in Slots : ChainGenerate(s)
    \/ \E s \in Slots : GraphEnter(s)
    \/ \E s \in Slots : GraphRetrieve(s)
    \/ \E s \in Slots : GraphGenerate(s)
    \/ \E s \in Slots : GraphEnd(s)
    \/ \E s \in Slots : Respond(s)
    \/ \E s \in Slots : AskFail(s)
    \/ \E s \in Slots : Recycle(s)
    \/ Crash
    \/ Restart

Spec == Init /\ [][Next]_vars

(* ======================== properties of the code ======================= *)
Asks    == {s \in Slots : task[s].kind = "ask"}
Uploads == {s \in Slots : task[s].kind = "upload"}

\* the question consists of whitespace only
IsBlank(q) == \A i \in 1..Len(q) : IsSpace(q[i])

\* the request of slot s fails one of the two input checks of ask
InputError(s) == vectorstore = None \/ IsBlank(task[s].question)

\* C1 (as stated): a request with engine="graph" made while the staged
\* pipeline is unavailable runs no pipeline and ends in a caller error (400).
C1_StagedUnavailableIsCallerError ==
    \A s \in Asks :
        (task[s].engine = "graph" /\ ~task[s].staged_avail)
            => /\ task[s].pipeline = "none"
               /\ task[s].pc = "done" => task[s].status = 400

\* C1 (amended): a request with engine="graph" made while the staged
\* pipeline is unavailable, and passing the two input checks, is handed to
\* the chain pipeline: the staged pipeline runs no stage and the request is
\* not rejected as a caller error.
C1_StagedUnavailableFallsBackToChain ==
    \A s \in Asks :
        (task[s].engine = "graph" /\ ~task[s].staged_avail /\ ~InputError(s))
            => /\ task[s].pipeline = "chain"
               /\ task[s].stages = <<>>
               /\ task[s].status # 400

C1_Witness ==
    \E s \in Asks : /\ task[s].engine = "graph" /\ ~task[s].staged_avail
                    /\ task[s].pipeline = "chain" /\ task[s].status = 200

\* C2: an explicit engine overrides the default: engine="chain" never runs
\* the staged pipeline, and engine="graph" with the staged pipeline
\* available never runs the chain pipeline, whatever use_langgraph is.
C2_ExplicitEngineOverridesDefault ==
    \A s \in Asks :
        /\ task[s].engine = "chain"
              => task[s].pipeline # "graph" /\ task[s].stages = <<>>
        /\ (task[s].engine = "graph" /\ task[s].staged_avail)
              => task[s].pipeline # "chain" /\ ~task[s].built

C2_Witness ==
    \E s \in Asks : /\ task[s].engine = "chain" /\ use_langgraph
                    /\ task[s].staged_avail
                    /\ task[s].pipeline = "chain" /\ task[s].status = 200

\* C3: with no explicit engine, a request that passes the input checks runs
\* the staged pipeline iff use_langgraph is true and the staged pipeline is
\* available, and the chain pipeline otherwise.
C3_DefaultSelection ==
    \A s \in Asks :
        (task[s].engine = "none" /\ ~InputError(s))
            => /\ task[s].pipeline \in {"graph", "chain"}
               /\ task[s].pipeline = "graph"
                     <=> (use_langgraph /\ task[s].staged_avail)

C3_Witness ==
    \E s \in Asks : /\ task[s].engine = "none" /\ use_langgraph
                    /\ ~task[s].staged_avail
                    /\ task[s].pipeline = "chain" /\ task[s].status = 200

\* C4: an /ask with no index or with a blank question is rejected with 400
\* having made no embedding call, no generation call and built no pipeline.
C4_InputErrorTouchesNoProvider ==
    \A s \in Asks :
        InputError(s)
            => /\ task[s].pc = "done" /\ task[s].status = 400
               /\ task[s].embed_calls = 0 /\ task[s].gen_calls = 0
               /\ ~task[s].built /\ task[s].pipeline = "none"

C4_Witness ==
    \E s \in Asks : /\ vectorstore # None /\ IsBlank(task[s].question)
                    /\ task[s].status = 400

\* C5: whenever the process has crashed, the snapshot on disk is a complete
\* one (both files whole and of the same records) or there is none.
C5_CrashLeavesCompleteSnapshot == proc = "down" => DiskValid(disk)

\* slot s has an insert or a snapshot in flight
Writing(s) ==
    /\ task[s].kind = "upload"
    /\ task[s].pc \in {"add_store", "save_faiss_open", "save_faiss_write",
                       "save_pkl_open", "save_pkl_write"}

\* slot s has a search in flight
Searching(s) ==
    /\ task[s].kind = "ask"
    /\ \/ task[s].pc = "chain_retrieve"
       \/ task[s].pc = "graph_run" /\ task[s].node = "retrieve"

\* C6: an insert or snapshot is never in flight together with a search or
\* with another insert or snapshot.
C6_WritersExclusive ==
    \A s \in Slots : \A t \in Slots \ {s} :
        ~(Writing(s) /\ (Writing(t) \/ Searching(t)))

C6_Witness ==
    \E s \in Slots : \E t \in Slots \ {s} : Writing(s) /\ task[t].pc = "read"

\* the elements of s without repetition, in order of first occurrence
RECURSIVE FirstOccurrences(_)
FirstOccurrences(s) ==
    IF s = <<>> THEN <<>>
    ELSE LET r == FirstOccurrences(SubSeq(s, 1, Len(s) - 1))
         IN IF s[Len(s)] \in Range(r) THEN r ELSE Append(r, s[Len(s)])

DocSources(docs) == [i \in 1..Len(docs) |-> docs[i].source]

\* C7 (as stated): the sources of an answer are the sources of the
\* retrieved chunks without duplicates, in order of first occurrence.
C7_SourcesInRetrievalOrder ==
    \A s \in Asks :
        task[s].status = 200
            => task[s].sources = FirstOccurrences(DocSources(task[s].docs))

\* C7 (amended): the sources of an answer hold each source of the
\* retrieved chunks exactly once, in no particular order.
C7_SourcesDeduplicated ==
    \A s \in Asks :
        task[s].status = 200
            => /\ Range(task[s].sources) = Range(DocSources(task[s].docs))
               /\ Len(task[s].sources) = Cardinality(Range(task[s].sources))

C7_Witness ==
    \E s \in Asks : /\ task[s].status = 200
                    /\ Len(task[s].docs) = 2
                    /\ task[s].docs[1].source = task[s].docs[2].source
                    /\ Len(task[s].sources) = 1

\* C8: while the process runs the index only grows, and when an /upload
\* returns success the snapshot on disk holds exactly the records of the
\* in-memory index.
C8_GrowsAndPersisted ==
    [][ /\ (proc = "up" /\ proc' = "up" /\ vectorstore # None)
            => /\ vectorstore' # None
               /\ IsPrefix(heap[vectorstore].index, heap'[vectorstore'].index)
               /\ IsPrefix(heap[vectorstore].store, heap'[vectorstore'].store)
        /\ \A s \in Slots :
              (task'[s].kind = "upload" /\ task'[s].status = 200
                  /\ task[s].status # 200)
                 => /\ disk'.faiss = Full(heap'[vectorstore'].index)
                    /\ disk'.pkl = Full(heap'[vectorstore'].store)
      ]_vars

C8_Witness ==
    \E s \in Uploads : /\ task[s].status = 200
                       /\ Len(heap[vectorstore].store) >= 2
                       /\ disk.pkl = Full(heap[vectorstore].store)
                       /\ disk.faiss = Full(heap[vectorstore].index)

\* C9: a run of the staged pipeline executes retrieve, then generate, each
\* at most once and in that order; generate runs only after retrieve has
\* written docs; a run that comes back from the graph has executed both.
C9_RetrieveThenGenerate ==
    \A s \in Asks :
        task[s].pipeline = "graph"
            => /\ IsPrefix(task[s].stages, <<"retrieve", "generate">>)
               /\ task[s].stages # <<>> => task[s].has_docs
               /\ task[s].node = "generate" => task[s].stages = <<"retrieve">>
               /\ (task[s].node = "END" \/ task[s].status = 200)
                     => task[s].stages = <<"retrieve", "generate">>

C9_Witness ==
    \E s \in Asks : /\ task[s].pipeline = "graph" /\ task[s].status = 200
                    /\ task[s].stages = <<"retrieve", "generate">>

\* C10: every pipeline held in app.state is bound to the current
\* vectorstore, and what an /ask has retrieved was searched in the current
\* vectorstore and is among its records.
C10_PipelinesBoundToCurrentIndex ==
    proc = "up"
        => /\ retrieval_chain \in {None, vectorstore}
           /\ graph_chain \in {None, vectorstore}
           /\ \A s \in Asks :
                 task[s].has_docs
                    => /\ task[s].searched = vectorstore
                       /\ Range(task[s].docs) \subseteq Range(heap[vectorstore].store)

C10_Witness ==
    \E s \in Asks : /\ task[s].status = 200
                    /\ Len(task[s].docs) >= 2

====
